---- MODULE Spec2Model ----
(***************************************************************************)
(* A model of bslmf_rvalue.h: the vocabulary type bslmf::Rvalue<TYPE>, the *)
(* utility struct bslmf::RvalueUtil in its C++03 and C++11 variants, and   *)
(* the move-enabled class template vector<TYPE> of the component's usage   *)
(* example, instantiated as vector<int> and vector<vector<int> >.          *)
(*                                                                         *)
(* Memory is modelled explicitly.  A pointer is a pair (buffer, offset);   *)
(* the heap maps each live buffer to its capacity and to the sequence of   *)
(* elements constructed in it.  The same client operations are run against *)
(* one world per variant, so that the two variants can be compared.        *)
(***************************************************************************)
EXTENDS Integers, Sequences, FiniteSets, TLC

\* ------------------------------------------------------------------ bounds
MaxSize == 2        \* client code stops appending to a vector<int> at this size
MaxVSize == 2       \* client code stops appending to vvector at this size
MaxFill == 1        \* ... and to the vector<int> that vvector is filled from
MaxReserve == 3     \* largest newCapacity client code passes to reserve()

Values == {0, 1}    \* the int values client code appends
Variants == {"cxx03", "cxx11"}
IntNames == {"vector0", "vector1"}   \* the vector<int> variables of client code
VVName == "vvector"                  \* the vector<vector<int> > variable
VarNames == IntNames \cup {VVName, "other"}

\* ---------------------------------------------------------------- pointers
Null == [buf |-> 0, off |-> 0]
Ptr(b, k) == [buf |-> b, off |-> k]

\* An lvalue (reference): a named variable, an element slot of a buffer, or a
\* temporary int of the caller holding the value 'off'.
VarLoc(n) == [var |-> n, buf |-> 0, off |-> 0]
ElemLoc(p) == [var |-> "", buf |-> p.buf, off |-> p.off]
TempInt(x) == [var |-> "temp", buf |-> 0, off |-> x]

\* ------------------------------------------------------- vector<TYPE> basics
EmptyVector == [d_begin |-> Null, d_end |-> Null, d_endBuffer |-> Null]
begin(v) == v.d_begin
end(v) == v.d_end
capacity(v) == v.d_endBuffer.off - v.d_begin.off
empty(v) == v.d_begin = v.d_end
size(v) == v.d_end.off - v.d_begin.off
\* the element TYPE of a named vector: "int", or "vector" for vector<int>
TypeOf(n) == IF n = VVName THEN "vector" ELSE "int"

\* ------------------------------------------------------------------- worlds
EmptyHeap == [b \in {} |-> 0]
InitWorld ==
    [mem |-> EmptyHeap,
     var |-> [n \in VarNames |-> EmptyVector],
     live |-> {},
     status |-> "running"]

Load(w, loc) ==
    IF loc.var # "" THEN w.var[loc.var] ELSE w.mem[loc.buf].elems[loc.off + 1]
Store(w, loc, v) ==
    IF loc.var # ""
    THEN [w EXCEPT !.var[loc.var] = v]
    ELSE [w EXCEPT !.mem[loc.buf].elems[loc.off + 1] = v]
ReadInt(w, ref) ==
    IF ref.var = "temp" THEN ref.off ELSE w.mem[ref.buf].elems[ref.off + 1]

NewId(w) ==
    CHOOSE i \in 1..(Cardinality(DOMAIN w.mem) + 1) :
        /\ i \notin DOMAIN w.mem
        /\ \A j \in 1..(i - 1) : j \in DOMAIN w.mem
operator_new(w, T, n) ==
    [w EXCEPT !.mem = [b \in DOMAIN w.mem \cup {NewId(w)} |->
                          IF b = NewId(w)
                          THEN [T |-> T, cap |-> n, elems |-> << >>]
                          ELSE w.mem[b]]]
operator_delete(w, p) ==
    [w EXCEPT !.mem = [b \in DOMAIN w.mem \ {p.buf} |-> w.mem[b]]]

\* ------------------------------------------------- Rvalue<TYPE>, RvalueUtil
Rvalue(pointer) == [d_pointer |-> pointer]
\* (mutant) for a vector, the conversion yields a temporary copy of the
\* referenced object
Rvalue_ref_of_copy(rvalue) ==
    IF rvalue.d_pointer.var = "temp" THEN rvalue.d_pointer ELSE VarLoc("other")
Rvalue_ref(rvalue) == rvalue.d_pointer
RvalueUtil_access(variant, rvalue) ==
    IF variant = "cxx03" THEN Rvalue_ref(rvalue) ELSE rvalue
\* (mutant) C++03 move() of a vector takes its argument by value and points
\* at the copy
RvalueUtil_move_by_value(variant, lvalue) ==
    IF variant = "cxx03"
    THEN Rvalue(IF lvalue.var = "temp" THEN lvalue ELSE VarLoc("other"))
    ELSE lvalue
RvalueUtil_move(variant, lvalue) ==
    IF variant = "cxx03" THEN Rvalue(lvalue) ELSE lvalue
RvalueUtil_moveRvalue(variant, rvalue) == rvalue
RvalueUtil_moveIfNoexcept(lvalue) == lvalue
Reference(variant, rvalue) ==
    IF variant = "cxx03" THEN Rvalue_ref(rvalue) ELSE rvalue

\* ------------------------------------------------------ vector<TYPE> members
\* Every member takes the world w and the location 'self' of *this, and
\* returns the world after the call.  TYPE is "int" or "vector" (vector<int>).
RECURSIVE reserve(_, _, _, _)
RECURSIVE reserve_loop(_, _, _, _, _)
RECURSIVE vector_copy(_, _, _, _)
RECURSIVE copy_loop(_, _, _, _, _)
RECURSIVE CopyElement(_, _, _, _)
RECURSIVE vector_dtor(_, _, _)
RECURSIVE destroy_loop(_, _, _)
RECURSIVE DestroyElement(_, _, _)

\* new (p) TYPE(value), value a const lvalue: the copy constructor of TYPE
CopyElement(w, TYPE, p, value) ==
    IF TYPE = "int"
    THEN [w EXCEPT !.mem[p.buf].elems = Append(@, ReadInt(w, value))]
    ELSE vector_copy([w EXCEPT !.mem[p.buf].elems = Append(@, EmptyVector)],
                     ElemLoc(p), value, "int")

\* p->~TYPE(), p the last constructed element of its buffer
DestroyElement(w, TYPE, p) ==
    LET w1 == IF TYPE = "int" THEN w
              ELSE vector_dtor(w, w.mem[p.buf].elems[p.off + 1], "int")
    IN  [w1 EXCEPT !.mem[p.buf].elems = SubSeq(@, 1, p.off)]

destroy_loop(w, v, TYPE) ==
    IF v.d_begin = v.d_end THEN w
    ELSE LET v1 == [v EXCEPT !.d_end.off = @ - 1]
         IN  destroy_loop(DestroyElement(w, TYPE, v1.d_end), v1, TYPE)

\* vector<TYPE>::~vector() of the vector whose members are v
vector_dtor(w, v, TYPE) ==
    IF v.d_begin # Null
    THEN operator_delete(destroy_loop(w, v, TYPE), v.d_begin)
    ELSE w

\* the loop of reserve(): tmp is the local vector being filled
reserve_loop(w, tmp, TYPE, it, last) ==
    IF it = last THEN [w |-> w, tmp |-> tmp]
    ELSE reserve_loop(
             CopyElement(w, TYPE, tmp.d_end, RvalueUtil_moveIfNoexcept(ElemLoc(it))),
             [tmp EXCEPT !.d_end.off = @ + 1],
             TYPE, [it EXCEPT !.off = @ + 1], last)

\* (mutant) 'capacity() <= newCapacity': reallocates although the capacity suffices
reserve_when_equal(w, self, TYPE, newCapacity) ==
    LET this == Load(w, self) IN
    IF capacity(this) <= newCapacity
    THEN LET b == NewId(w)
             w1 == operator_new(w, TYPE, newCapacity)
             tmp == [d_begin |-> Ptr(b, 0), d_end |-> Ptr(b, 0),
                     d_endBuffer |-> Ptr(b, newCapacity)]
             r == reserve_loop(w1, tmp, TYPE, this.d_begin, this.d_end)
             swapped == Store(r.w, self, r.tmp)
         IN  vector_dtor(swapped, this, TYPE)
    ELSE w

reserve(w, self, TYPE, newCapacity) ==
    LET this == Load(w, self) IN
    IF capacity(this) < newCapacity
    THEN LET b == NewId(w)
             w1 == operator_new(w, TYPE, newCapacity)
             tmp == [d_begin |-> Ptr(b, 0), d_end |-> Ptr(b, 0),
                     d_endBuffer |-> Ptr(b, newCapacity)]
             r == reserve_loop(w1, tmp, TYPE, this.d_begin, this.d_end)
             swapped == Store(r.w, self, r.tmp)
         IN  vector_dtor(swapped, this, TYPE)
    ELSE w

copy_loop(w, self, TYPE, it, last) ==
    IF it = last THEN w
    ELSE LET w1 == CopyElement(w, TYPE, Load(w, self).d_end, ElemLoc(it))
             w2 == Store(w1, self, [Load(w1, self) EXCEPT !.d_end.off = @ + 1])
         IN  copy_loop(w2, self, TYPE, [it EXCEPT !.off = @ + 1], last)

\* vector<TYPE>::vector(const vector& other), constructing at 'self'
vector_copy(w, self, other, TYPE) ==
    LET w0 == Store(w, self, EmptyVector)
        o == Load(w0, other)
    IN  IF ~empty(o)
        THEN copy_loop(reserve(w0, self, TYPE, IF 4 < size(o) THEN size(o) ELSE 4),
                       self, TYPE, o.d_begin, o.d_end)
        ELSE w0

\* (mutant) the "move" constructor copies the elements of other
vector_move_copying(w, variant, self, other) ==
    vector_copy(w, self, Reference(variant, other), "int")

\* (mutant) the move constructor forgets 'reference.d_endBuffer = 0'
vector_move_keeps_endBuffer(w, variant, self, other) ==
    LET a == Load(w, RvalueUtil_access(variant, other))
        w1 == Store(w, self, a)
    IN  Store(w1, Reference(variant, other), [a EXCEPT !.d_begin = Null, !.d_end = Null])

\* vector<TYPE>::vector(bslmf::Rvalue<vector> other), constructing at 'self'
vector_move(w, variant, self, other) ==
    LET w1 == Store(w, self,
                    [d_begin |-> Load(w, RvalueUtil_access(variant, other)).d_begin,
                     d_end |-> Load(w, RvalueUtil_access(variant, other)).d_end,
                     d_endBuffer |-> Load(w, RvalueUtil_access(variant, other)).d_endBuffer])
        reference == Reference(variant, other)
    IN  Store(w1, reference, EmptyVector)

\* new (p) TYPE(rvalue): the move constructor of TYPE (for int, a copy)
MoveElement(w, variant, TYPE, p, rvalue) ==
    IF TYPE = "int"
    THEN [w EXCEPT !.mem[p.buf].elems = Append(@, ReadInt(w, Reference(variant, rvalue)))]
    ELSE vector_move([w EXCEPT !.mem[p.buf].elems = Append(@, EmptyVector)],
                     variant, ElemLoc(p), rvalue)

\* swap(TYPE*&, TYPE*&) applied memberwise: vector<TYPE>::swap(vector& other)
swap(w, self, other) ==
    LET a == Load(w, self)
        b == Load(w, other)
        w1 == Store(w, self, [a EXCEPT !.d_begin = b.d_begin])
        w2 == Store(w1, other, [Load(w1, other) EXCEPT !.d_begin = a.d_begin])
        w3 == Store(w2, self, [Load(w2, self) EXCEPT !.d_end = b.d_end])
        w4 == Store(w3, other, [Load(w3, other) EXCEPT !.d_end = a.d_end])
        w5 == Store(w4, self, [Load(w4, self) EXCEPT !.d_endBuffer = b.d_endBuffer])
    IN  Store(w5, other, [Load(w5, other) EXCEPT !.d_endBuffer = a.d_endBuffer])

\* vector<TYPE>::operator=(vector other): the by-value parameter 'other' has
\* been constructed in the variable "other"; it is destroyed on return.
vector_assign(w, self, TYPE) ==
    LET w1 == swap(w, self, VarLoc("other"))
    IN  [vector_dtor(w1, w1.var["other"], TYPE) EXCEPT !.var["other"] = EmptyVector]

\* the capacity push_back() asks reserve() for: size()? int(1.5 * size()): 4
GrownCapacity(v) == IF size(v) # 0 THEN (3 * size(v)) \div 2 ELSE 4

\* What follows 'assert(d_end != d_endBuffer)' when the assertion is false:
\* a build with assertions aborts; a build without them constructs the
\* element past the end of the buffer, which is undefined behaviour.
AssertionFailed(w, self, ndebug) ==
    IF ndebug
    THEN [Store(w, self, [Load(w, self) EXCEPT !.d_end.off = @ + 1])
             EXCEPT !.status = "overflow"]
    ELSE [w EXCEPT !.status = "aborted"]

\* vector<TYPE>::push_back(const TYPE& value)
push_back(w, self, TYPE, value, ndebug) ==
    LET w1 == IF Load(w, self).d_end = Load(w, self).d_endBuffer
              THEN reserve(w, self, TYPE, GrownCapacity(Load(w, self)))
              ELSE w
        this == Load(w1, self)
    IN  IF this.d_end # this.d_endBuffer
        THEN Store(CopyElement(w1, TYPE, this.d_end, value), self,
                   [this EXCEPT !.d_end.off = @ + 1])
        ELSE AssertionFailed(w1, self, ndebug)

\* vector<TYPE>::push_back(bslmf::Rvalue<TYPE> value)
push_back_rvalue(w, variant, self, TYPE, value, ndebug) ==
    LET w1 == IF Load(w, self).d_end = Load(w, self).d_endBuffer
              THEN reserve(w, self, TYPE, GrownCapacity(Load(w, self)))
              ELSE w
        this == Load(w1, self)
    IN  IF this.d_end # this.d_endBuffer
        THEN Store(MoveElement(w1, variant, TYPE, this.d_end,
                               RvalueUtil_moveRvalue(variant, value)),
                   self, [this EXCEPT !.d_end.off = @ + 1])
        ELSE AssertionFailed(w1, self, ndebug)

\* operator[](index)
ElementAt(v, index) == ElemLoc(Ptr(v.d_begin.buf, v.d_begin.off + index))

\* ------------------------------------------------------------------- state
VARIABLES
    world,      \* world[k]: memory and variables of the program built as variant k
    lastOp,     \* the client operation performed last, with its arguments
    accessed    \* accessed[k]: the reference the last operation returned, if any
vars == <<world, lastOp, accessed>>

Op(name, self) == [op |-> name, self |-> self]
NoLoc == VarLoc("")

Running == \A k \in Variants : world[k].status = "running"
Live(a) == \A k \in Variants : a \in world[k].live
Dead(a) == \A k \in Variants : a \notin world[k].live
MaxSizeOf(a) == IF a = VVName THEN MaxVSize ELSE MaxSize
\* value is a temporary int of the caller, or a live variable
Valid(value) == value.var = "temp" \/ Live(value.var)
\* the vector<int> objects client code can name: variables and vvector[i]
IntVectorLocs(w) ==
    {VarLoc(b) : b \in IntNames \cap w.live}
    \cup (IF VVName \in w.live
          THEN {ElementAt(w.var[VVName], i) : i \in 0..(size(w.var[VVName]) - 1)}
          ELSE {})

Init ==
    /\ world = [k \in Variants |-> InitWorld]
    /\ lastOp = Op("init", "")
    /\ accessed = [k \in Variants |-> NoLoc]

\* vector<TYPE> a;
DefaultConstruct(a) ==
    /\ Running /\ Dead(a)
    /\ lastOp' = Op("default", a)
    /\ world' = [k \in Variants |->
                   [Store(world[k], VarLoc(a), EmptyVector)
                       EXCEPT !.live = @ \cup {a}]]
    /\ accessed' = [k \in Variants |-> NoLoc]

\* vector<int> a(b);
CopyConstruct(a, b) ==
    /\ Running /\ Dead(a) /\ Live(b)
    /\ lastOp' = Op("copy", a)
    /\ world' = [k \in Variants |->
                   [vector_copy(world[k], VarLoc(a), VarLoc(b), "int")
                       EXCEPT !.live = @ \cup {a}]]
    /\ accessed' = [k \in Variants |-> NoLoc]

\* vector<int> a(bslmf::RvalueUtil::move(src)); src a variable or vvector[i]
MoveConstruct(a, src) ==
    /\ Running /\ Dead(a)
    /\ \A k \in Variants : src \in IntVectorLocs(world[k])
    /\ lastOp' = Op("move", a)
    /\ world' = [k \in Variants |->
                   [vector_move(world[k], k, VarLoc(a),
                                RvalueUtil_move(k, src))
                       EXCEPT !.live = @ \cup {a}]]
    /\ accessed' = [k \in Variants |-> NoLoc]

\* a goes out of scope
Destroy(a) ==
    /\ Running /\ Live(a)
    /\ lastOp' = Op("destroy", a)
    /\ world' = [k \in Variants |->
                   [vector_dtor(world[k], world[k].var[a], TypeOf(a))
                       EXCEPT !.live = @ \ {a}, !.var[a] = EmptyVector]]
    /\ accessed' = [k \in Variants |-> NoLoc]

\* a = b;
CopyAssign(a, b) ==
    /\ Running /\ Live(a) /\ Live(b)
    /\ lastOp' = Op("assign", a)
    /\ world' = [k \in Variants |->
                   vector_assign(vector_copy(world[k], VarLoc("other"),
                                             VarLoc(b), "int"),
                                 VarLoc(a), "int")]
    /\ accessed' = [k \in Variants |-> NoLoc]

\* a = bslmf::RvalueUtil::move(b);
MoveAssign(a, b) ==
    /\ Running /\ Live(a) /\ Live(b)
    /\ lastOp' = Op("move_assign", a)
    /\ world' = [k \in Variants |->
                   vector_assign(vector_move(world[k], k, VarLoc("other"),
                                             RvalueUtil_move(k, VarLoc(b))),
                                 VarLoc(a), "int")]
    /\ accessed' = [k \in Variants |-> NoLoc]

\* a.reserve(newCapacity);
Reserve(a, newCapacity) ==
    /\ Running /\ Live(a)
    /\ lastOp' = Op("reserve", a)
    /\ world' = [k \in Variants |->
                   reserve(world[k], VarLoc(a), TypeOf(a), newCapacity)]
    /\ accessed' = [k \in Variants |-> NoLoc]

\* a.push_back(value);
PushBack(a, value, ndebug) ==
    /\ Running /\ Live(a) /\ Valid(value)
    /\ \A k \in Variants : size(world[k].var[a]) < MaxSizeOf(a)
    /\ lastOp' = Op("push_back", a)
    /\ world' = [k \in Variants |->
                   push_back(world[k], VarLoc(a), TypeOf(a), value, ndebug)]
    /\ accessed' = [k \in Variants |-> NoLoc]

\* a.push_back(bslmf::RvalueUtil::move(value));
PushBackRvalue(a, value, ndebug) ==
    /\ Running /\ Live(a) /\ Valid(value)
    /\ \A k \in Variants : size(world[k].var[a]) < MaxSizeOf(a)
    /\ lastOp' = Op("push_back_rvalue", a)
    /\ world' = [k \in Variants |->
                   push_back_rvalue(world[k], k, VarLoc(a), TypeOf(a),
                                    RvalueUtil_move(k, value), ndebug)]
    /\ accessed' = [k \in Variants |-> NoLoc]

\* bslmf::RvalueUtil::access(bslmf::RvalueUtil::move(x))
AccessMove(x) ==
    /\ Running
    /\ \A k \in Variants : x \in IntVectorLocs(world[k])
    /\ lastOp' = Op("access_move", "")
    /\ accessed' = [k \in Variants |->
                      RvalueUtil_access(k, RvalueUtil_move(k, x))]
    /\ UNCHANGED world

\* ------------------------------------------------------------ client code
\* Client code working on the vector<int> variables alone.
IntLocs == {VarLoc(b) : b \in IntNames}

Next ==
    \/ \E a \in IntNames : DefaultConstruct(a)
    \/ \E a, b \in IntNames : CopyConstruct(a, b)
    \/ \E a \in IntNames : \E src \in IntLocs : MoveConstruct(a, src)
    \/ \E a \in IntNames : Destroy(a)
    \/ \E a, b \in IntNames : CopyAssign(a, b)
    \/ \E a, b \in IntNames : MoveAssign(a, b)
    \/ \E a \in IntNames : \E n \in 0..MaxReserve : Reserve(a, n)
    \/ \E a \in IntNames : \E x \in Values :
           \E ndebug \in BOOLEAN : PushBack(a, TempInt(x), ndebug)
    \/ \E a \in IntNames : \E x \in Values :
           \E ndebug \in BOOLEAN : PushBackRvalue(a, TempInt(x), ndebug)
    \/ \E x \in IntLocs : AccessMove(x)

Spec == Init /\ [][Next]_vars

\* Client code working on vvector and on the one variable it is filled from.
Vector2 == "vector0"
NestedNames == {Vector2, VVName}
NestedLocs ==
    {VarLoc(Vector2)} \cup
    {[var |-> "", buf |-> b, off |-> i] : b \in 1..(MaxVSize + 3), i \in 0..(MaxVSize - 1)}

\* for (int i = 0; i != MaxFill; ++i) vector.push_back(i)
NestedArguments ==
    {TempInt(size(world[k].var[Vector2])) : k \in Variants}
        \cap {TempInt(i) : i \in 0..(MaxFill - 1)}

NextNested ==
    \/ \E a \in NestedNames : DefaultConstruct(a)
    \/ \E src \in NestedLocs : MoveConstruct(Vector2, src)
    \/ \E a \in NestedNames : Destroy(a)
    \/ \E n \in 0..MaxReserve : Reserve(VVName, n)
    \/ \E value \in NestedArguments :
           \E ndebug \in BOOLEAN : PushBack(Vector2, value, ndebug)
    \/ \E ndebug \in BOOLEAN : PushBack(VVName, VarLoc(Vector2), ndebug)
    \/ \E ndebug \in BOOLEAN : PushBackRvalue(VVName, VarLoc(Vector2), ndebug)

SpecNested == Init /\ [][NextNested]_vars

\* Client code that only fills vvector and reserves capacity in it.
NextReserve ==
    \/ \E a \in NestedNames : DefaultConstruct(a)
    \/ \E n \in 0..MaxReserve : Reserve(VVName, n)
    \/ \E value \in NestedArguments :
           \E ndebug \in BOOLEAN : PushBack(Vector2, value, ndebug)
    \/ \E ndebug \in BOOLEAN : PushBack(VVName, VarLoc(Vector2), ndebug)
    \/ \E ndebug \in BOOLEAN : PushBackRvalue(VVName, VarLoc(Vector2), ndebug)

SpecReserve == Init /\ [][NextReserve]_vars

\* ------------------------------------------------------------- observations
\* the elements of vector v, first to last
Elements(w, v) ==
    [i \in 1..size(v) |-> w.mem[v.d_begin.buf].elems[v.d_begin.off + i]]
\* their values: an int is its own value, a vector<int> the sequence of its ints
Contents(w, v, TYPE) ==
    IF TYPE = "int" THEN Elements(w, v)
    ELSE [i \in 1..size(v) |-> Elements(w, Elements(w, v)[i])]
\* the value push_back is given
ValueOf(w, TYPE, value) ==
    IF TYPE = "int" THEN ReadInt(w, value) ELSE Elements(w, Load(w, value))

\* ------------------------------------------------------------------- claims

\* C1: for every object x, access(move(x)) refers to x itself, in the C++03
\* variant and in the C++11 variant, and obtaining it leaves every object as
\* it was.
C1_AccessOfMoveIsTheObject ==
    [][\A x \in IntLocs :
          AccessMove(x) =>
              /\ \A k \in Variants : accessed'[k] = x
              /\ world' = world]_vars
C1_Witness ==
    /\ lastOp.op = "access_move"
    /\ \A k \in Variants :
          /\ accessed[k] = VarLoc("vector1")
          /\ size(world[k].var["vector1"]) = MaxSize

\* C2: the same client operations leave the program built as C++03 and the
\* program built as C++11 in the same state: same variables, same buffers,
\* same elements, same outcome.
C2_VariantsAgree ==
    /\ world["cxx03"] = world["cxx11"]
    /\ accessed["cxx03"] = accessed["cxx11"]
C2_Witness ==
    /\ lastOp = Op("move_assign", "vector1")
    /\ \A k \in Variants :
          /\ size(world[k].var["vector1"]) = MaxSize
          /\ world[k].var["vector0"] = EmptyVector
          /\ "vector0" \in world[k].live

\* C3: move construction takes over the representation: the new vector has
\* exactly the d_begin, d_end and d_endBuffer the source had, and the heap is
\* as it was (no buffer allocated or released, no element copied).
C3_MoveConstructTransfers ==
    [][\A a \in IntNames : \A src \in IntLocs :
          MoveConstruct(a, src) =>
              \A k \in Variants :
                  /\ world'[k].var[a] = Load(world[k], src)
                  /\ begin(world'[k].var[a]) = begin(Load(world[k], src))
                  /\ world'[k].mem = world[k].mem]_vars
C3_Witness ==
    /\ lastOp.op = "move"
    /\ \A k \in Variants :
          /\ size(world[k].var[lastOp.self]) = MaxSize
          /\ capacity(world[k].var[lastOp.self]) = MaxReserve

\* the state of a vector that operations can no longer tell from a new one
Defaulted(w, loc) == Store(w, loc, EmptyVector)
MovedFrom(w, loc) ==
    /\ Load(w, loc).d_begin = Null
    /\ Load(w, loc).d_end = Null
    /\ Load(w, loc).d_endBuffer = Null
    /\ empty(Load(w, loc))
    /\ size(Load(w, loc)) = 0
    /\ capacity(Load(w, loc)) = 0
    /\ w = Defaulted(w, loc)

\* C4: a vector that has been moved from, by the move constructor or by
\* push_back(Rvalue), is in the state of a default-constructed vector: all
\* three members null, empty, size 0, capacity 0; the program state is the
\* one in which the default constructor has just constructed that vector, so
\* every later operation, a function of the state, does what it does there.
C4_MovedFromIsEmpty ==
    [][/\ \A src \in NestedLocs :
              MoveConstruct(Vector2, src) =>
                  \A k \in Variants : MovedFrom(world'[k], src)
       /\ \A ndebug \in BOOLEAN :
              (PushBackRvalue(VVName, VarLoc(Vector2), ndebug) /\ Running') =>
                  \A k \in Variants : MovedFrom(world'[k], VarLoc(Vector2))]_vars
C4_Witness ==
    /\ lastOp.op = "push_back_rvalue"
    /\ \A k \in Variants :
          /\ world[k].status = "running"
          /\ size(world[k].var[VVName]) = 2
          /\ size(Elements(world[k], world[k].var[VVName])[2]) = MaxFill
          /\ world[k].var[Vector2] = EmptyVector

\* C5: vvector.push_back(move(v)) grows vvector by one, and the new last
\* element has the begin() and the size v had before the call.
C5_PushBackRvalueTransfers ==
    [][\A ndebug \in BOOLEAN :
          PushBackRvalue(VVName, VarLoc(Vector2), ndebug) =>
              \A k \in Variants :
                  /\ world'[k].status = "running"
                  /\ size(world'[k].var[VVName]) = size(world[k].var[VVName]) + 1
                  /\ LET last == Elements(world'[k], world'[k].var[VVName])
                                     [size(world'[k].var[VVName])]
                     IN  /\ begin(last) = begin(world[k].var[Vector2])
                         /\ size(last) = size(world[k].var[Vector2])]_vars

\* what push_back(const TYPE&) on variable a is to make of world w
PushBackCopies(w, w2, a, value) ==
    /\ w2.status = "running"
    /\ size(w2.var[a]) = size(w.var[a]) + 1
    /\ Contents(w2, w2.var[a], TypeOf(a))
           = Append(Contents(w, w.var[a], TypeOf(a)), ValueOf(w, TypeOf(a), value))
    /\ TypeOf(a) = "vector" =>
           /\ Load(w2, value) = Load(w, value)
           /\ Elements(w2, Load(w2, value)) = Elements(w, Load(w, value))
           /\ begin(Elements(w2, w2.var[a])[size(w2.var[a])]) # begin(Load(w, value))

\* C6: push_back(value) appends a copy: the size grows by one, the last
\* element equals value, the earlier elements keep value and order, the
\* argument is unchanged; a vector element gets a buffer of its own.
C6_PushBackAppendsCopy ==
    [][\A ndebug \in BOOLEAN :
          /\ \A value \in NestedArguments :
                PushBack(Vector2, value, ndebug) =>
                    \A k \in Variants :
                        PushBackCopies(world[k], world'[k], Vector2, value)
          /\ PushBack(VVName, VarLoc(Vector2), ndebug) =>
                \A k \in Variants :
                    PushBackCopies(world[k], world'[k], VVName, VarLoc(Vector2))]_vars

\* C7: in every reachable state a push_back that finds the capacity filled
\* obtains more from reserve(), so its assertion d_end != d_endBuffer holds.
C7_AssertionHolds ==
    \A k \in Variants : world[k].status = "running"

\* C8: reserve(newCapacity) leaves capacity() >= newCapacity and no smaller
\* than before, keeps size() and the value and order of every element, and
\* changes nothing at all when capacity() >= newCapacity already.
C8_ReserveKeepsElements ==
    [][\A n \in 0..MaxReserve :
          Reserve(VVName, n) =>
              \A k \in Variants :
                  LET v == world[k].var[VVName]
                      v2 == world'[k].var[VVName]
                  IN  /\ capacity(v2) >= n
                      /\ capacity(v2) >= capacity(v)
                      /\ size(v2) = size(v)
                      /\ Contents(world'[k], v2, "vector")
                             = Contents(world[k], v, "vector")
                      /\ capacity(v) >= n => world'[k] = world[k]]_vars
C8_Witness ==
    /\ lastOp.op = "reserve"
    /\ \A k \in Variants :
          /\ capacity(world[k].var[VVName]) = MaxReserve
          /\ size(world[k].var[VVName]) = 2
          /\ size(Elements(world[k], world[k].var[VVName])[1]) = 0
          /\ size(Elements(world[k], world[k].var[VVName])[2]) = MaxFill
====
